---- MODULE Spec2Model ----
(***************************************************************************)
(* A model of BruteWordsCrank.py: the wordlist generator, its session      *)
(* file and its output file, over several invocations of the program on    *)
(* the same output target.                                                 *)
(*                                                                         *)
(* Conventions.  A Python value that may be None is a sequence of length   *)
(* at most one: <<>> is None, <<v>> is v.  The strings the program         *)
(* iterates over (charset, pattern, permutations, the session file's       *)
(* text) are sequences of one-character strings; a pattern or permutation  *)
(* string that is None or "" is <<>> (the program only tests them for      *)
(* truth).  Words and output lines are strings.                            *)
(***************************************************************************)
EXTENDS Integers, Sequences, FiniteSets, TLC

(***************************************************************************)
(* Bounds of the model.                                                    *)
(***************************************************************************)
\* Invocations of the program on one output target in one behaviour, at
\* most: the example job is followed that far, the other jobs one less.
MaxRuns == 3
\* Largest user limit among the inputs besides "larger than the space".
MaxLimit == 2
\* Largest space whose whole enumeration a property spells out.
EnumBound == 40
\* A job whose lines fill the buffers of the output file: the length of its
\* prefix and the number of its words.
WideLen == 4095
WideCount == 3
\* The prefix of a line that is one byte longer than the buffer of f.
HugeLen == 8191

(***************************************************************************)
(* Program constants.                                                      *)
(***************************************************************************)
CheckpointInterval == 10000
\* buffering=8192: the size of the buffer of the BufferedWriter behind f
BufferSize == 8192
\* The bytes the text layer of f collects before it hands them on
ChunkSize == 8192

None == <<>>
Some(v) == <<v>>
IsNone(x) == x = <<>>
Val(x) == x[1]

Lower == << "a","b","c","d","e","f","g","h","i","j","k","l","m",
            "n","o","p","q","r","s","t","u","v","w","x","y","z" >>
Digits == << "0","1","2","3","4","5","6","7","8","9" >>
\* The grave accent (ASCII 96) of CHARSET_MAP['^'].  The TLA+ lexer accepts no
\* grave accent inside a string, so the model writes that one symbol as a
\* backslash, a character the set does not otherwise hold.
Backtick == "\\"
Symbols == << "!","@","#","$","%","^","&","*","(",")","_","+","-","=","[",
              "]","{","}","|",";","'",":","\"",",",".","/","<",">","?",Backtick,
              "~" >>

\* CHARSET_MAP.get(char, [char])
CHARSET_MAP(char) ==
    IF char = "@" THEN Lower
    ELSE IF char = "%" THEN Digits
    ELSE IF char = "^" THEN Symbols
    ELSE << char >>

(***************************************************************************)
(* str(count) and int(text.strip()).                                       *)
(***************************************************************************)
RECURSIVE NatToStr(_)
NatToStr(n) ==
    IF n < 10 THEN << Digits[n + 1] >>
    ELSE NatToStr(n \div 10) \o << Digits[(n % 10) + 1] >>

\* str(n) for an int n
IntToStr(n) == IF n < 0 THEN << "-" >> \o NatToStr(0 - n) ELSE NatToStr(n)

\* The characters str.strip() and int() take for whitespace (str.isspace)
\* among the characters a TLA+ string can hold, U+0000 to U+00FF: tab, line
\* feed, vertical tab, form feed, carriage return, U+001C to U+001F, space,
\* U+0085 and U+00A0.  The ones without an escape are written as they are.
Whitespace ==
    { "\t", "\n", "", "\f", "\r", "", "", "", "", " ",
      "", " " }

IsSpace(c) == c \in Whitespace
IsDigit(c) == \E i \in 1..10 : Digits[i] = c
DigitVal(c) == (CHOOSE i \in 1..10 : Digits[i] = c) - 1

RECURSIVE LStrip(_)
LStrip(s) == IF s # <<>> /\ IsSpace(Head(s)) THEN LStrip(Tail(s)) ELSE s

RECURSIVE RStrip(_)
RStrip(s) ==
    IF s # <<>> /\ IsSpace(s[Len(s)]) THEN RStrip(SubSeq(s, 1, Len(s) - 1)) ELSE s

\* text.strip()
Strip(s) == RStrip(LStrip(s))

\* The digits part of an int literal: digits, with single underscores
\* allowed between two digits.
IntBodyOk(b) ==
    /\ b # <<>>
    /\ \A i \in 1..Len(b) :
          \/ IsDigit(b[i])
          \/ /\ b[i] = "_"
             /\ 1 < i /\ i < Len(b)
             /\ IsDigit(b[i - 1]) /\ IsDigit(b[i + 1])

RECURSIVE BodyVal(_, _)
BodyVal(b, acc) ==
    IF b = <<>> THEN acc
    ELSE IF Head(b) = "_" THEN BodyVal(Tail(b), acc)
    ELSE BodyVal(Tail(b), 10 * acc + DigitVal(Head(b)))

\* The whitespace int() itself drops around a literal: that of str.strip()
\* without U+001C to U+001F.
IsIntSpace(c) == IsSpace(c) /\ c \notin { "", "", "", "" }

RECURSIVE IntLStrip(_)
IntLStrip(s) == IF s # <<>> /\ IsIntSpace(Head(s)) THEN IntLStrip(Tail(s)) ELSE s

RECURSIVE IntRStrip(_)
IntRStrip(s) ==
    IF s # <<>> /\ IsIntSpace(s[Len(s)])
    THEN IntRStrip(SubSeq(s, 1, Len(s) - 1)) ELSE s

\* int(text): whitespace around the literal is dropped, then an optional
\* sign and the digits; [ok |-> FALSE] stands for ValueError
ParseInt(text) ==
    LET s      == IntRStrip(IntLStrip(text))
        signed == s # <<>> /\ Head(s) \in { "-", "+" }
        body   == IF signed THEN Tail(s) ELSE s
    IN  IF IntBodyOk(body)
        THEN [ok |-> TRUE,
              val |-> IF signed /\ Head(s) = "-"
                      THEN 0 - BodyVal(body, 0) ELSE BodyVal(body, 0)]
        ELSE [ok |-> FALSE, val |-> 0]

\* "".join(word_tuple)
RECURSIVE Join(_)
Join(t) == IF t = <<>> THEN "" ELSE Head(t) \o Join(Tail(t))

(***************************************************************************)
(* The generators.  A generator is a record holding the position of the    *)
(* itertools iterator: the odometer of itertools.product, the indices and  *)
(* cycles of itertools.permutations, and for the range mode the next       *)
(* length of the chained generator expression.  Pulling an item gives      *)
(* [res, item, gen]: res is "item", "stop" (StopIteration) or "raise"      *)
(* (ValueError: product's repeat argument cannot be negative).             *)
(***************************************************************************)
Repeat(x, n) == [i \in 1..n |-> x]

\* itertools.product(*pools) before its first item
ProductInit(pools) ==
    [pools |-> pools, idx |-> Repeat(1, Len(pools)),
     started |-> FALSE, stopped |-> FALSE]

ProductItem(p) == [i \in 1..Len(p.pools) |-> p.pools[i][p.idx[i]]]

\* Mutant: the leftmost wheel turns first.
RECURSIVE AdvanceUp(_, _, _)
AdvanceUp(pools, idx, j) ==
    IF j > Len(pools) THEN [ok |-> FALSE, idx |-> idx]
    ELSE IF idx[j] + 1 > Len(pools[j])
         THEN AdvanceUp(pools, [idx EXCEPT ![j] = 1], j + 1)
         ELSE [ok |-> TRUE, idx |-> [idx EXCEPT ![j] = idx[j] + 1]]

Advance_leftmost(pools, idx, i) == AdvanceUp(pools, idx, 1)

\* The odometer step: the rightmost wheel turns first, a wheel that passes
\* its last symbol returns to the first and carries to the wheel on its left.
RECURSIVE Advance(_, _, _)
Advance(pools, idx, i) ==
    IF i = 0 THEN [ok |-> FALSE, idx |-> idx]
    ELSE IF idx[i] + 1 > Len(pools[i])
         THEN Advance(pools, [idx EXCEPT ![i] = 1], i - 1)
         ELSE [ok |-> TRUE, idx |-> [idx EXCEPT ![i] = idx[i] + 1]]

\* next() of an itertools.product iterator
ProductNext(p) ==
    IF p.stopped THEN [ok |-> FALSE, item |-> <<>>, st |-> p]
    ELSE IF ~p.started
    THEN IF \E i \in 1..Len(p.pools) : p.pools[i] = <<>>
         THEN [ok |-> FALSE, item |-> <<>>, st |-> [p EXCEPT !.stopped = TRUE]]
         ELSE [ok |-> TRUE, item |-> ProductItem(p),
               st |-> [p EXCEPT !.started = TRUE]]
    ELSE LET a == Advance(p.pools, p.idx, Len(p.pools))
             q == [p EXCEPT !.idx = a.idx]
         IN  IF a.ok THEN [ok |-> TRUE, item |-> ProductItem(q), st |-> q]
             ELSE [ok |-> FALSE, item |-> <<>>, st |-> [p EXCEPT !.stopped = TRUE]]

\* itertools.permutations(pool) before its first item (r = n)
PermInit(pool) ==
    [pool |-> pool, indices |-> [i \in 1..Len(pool) |-> i],
     cycles |-> [i \in 1..Len(pool) |-> Len(pool) - i + 1],
     started |-> FALSE, stopped |-> FALSE]

PermItem(p) == [i \in 1..Len(p.pool) |-> p.pool[p.indices[i]]]

\* The cycles step of itertools.permutations, from position i leftwards.
RECURSIVE PermAdvance(_, _, _, _)
PermAdvance(n, indices, cycles, i) ==
    IF i = 0 THEN [ok |-> FALSE, indices |-> indices, cycles |-> cycles]
    ELSE LET c == cycles[i] - 1 IN
         IF c = 0
         THEN PermAdvance(n,
                  SubSeq(indices, 1, i - 1) \o SubSeq(indices, i + 1, n)
                      \o << indices[i] >>,
                  [cycles EXCEPT ![i] = n - i + 1],
                  i - 1)
         ELSE [ok |-> TRUE,
               indices |-> [indices EXCEPT ![i] = indices[n - c + 1],
                                           ![n - c + 1] = indices[i]],
               cycles |-> [cycles EXCEPT ![i] = c]]

\* next() of an itertools.permutations iterator
PermNext(p) ==
    IF p.stopped THEN [ok |-> FALSE, item |-> <<>>, st |-> p]
    ELSE IF ~p.started
    THEN [ok |-> TRUE, item |-> PermItem(p), st |-> [p EXCEPT !.started = TRUE]]
    ELSE LET a == PermAdvance(Len(p.pool), p.indices, p.cycles, Len(p.pool))
             q == [p EXCEPT !.indices = a.indices, !.cycles = a.cycles]
         IN  IF a.ok THEN [ok |-> TRUE, item |-> PermItem(q), st |-> q]
             ELSE [ok |-> FALSE, item |-> <<>>, st |-> [p EXCEPT !.stopped = TRUE]]

NoInner == ProductInit(<<>>)
NoPerm == PermInit(<<>>)

\* A generator that has not been created yet.
NoGenerator ==
    [kind |-> "none", prod |-> NoInner, perm |-> NoPerm, charset |-> <<>>,
     nextLen |-> 0, maxLen |-> 0, hasInner |-> FALSE]

\* itertools.permutations(self.args.permutations)
PermGenerator(a) == [NoGenerator EXCEPT !.kind = "perm", !.perm = PermInit(a.permutations)]

\* itertools.product(*char_options), char_options from the pattern
PatternGenerator(a) ==
    [NoGenerator EXCEPT
        !.kind = "prod",
        !.prod = ProductInit([i \in 1..Len(a.pattern) |-> CHARSET_MAP(a.pattern[i])])]

\* itertools.chain.from_iterable(product(charset, repeat=length)
\*                               for length in range(min_len, max_len + 1))
RangeGenerator(a) ==
    [NoGenerator EXCEPT
        !.kind = "chain", !.charset = a.charset,
        !.nextLen = Val(a.min_len), !.maxLen = Val(a.max_len)]

\* next() of the chained iterator: the lengths are taken up one at a time,
\* and product() for a length is only called when the chain reaches it.
RECURSIVE ChainNext(_)
ChainNext(g) ==
    IF g.hasInner
    THEN LET r == ProductNext(g.prod) IN
         IF r.ok THEN [res |-> "item", item |-> r.item, gen |-> [g EXCEPT !.prod = r.st]]
         ELSE ChainNext([g EXCEPT !.hasInner = FALSE, !.prod = NoInner])
    ELSE IF g.nextLen > g.maxLen THEN [res |-> "stop", item |-> <<>>, gen |-> g]
    ELSE IF g.nextLen < 0 THEN [res |-> "raise", item |-> <<>>, gen |-> g]
    ELSE ChainNext([g EXCEPT !.hasInner = TRUE,
                             !.prod = ProductInit(Repeat(g.charset, g.nextLen)),
                             !.nextLen = g.nextLen + 1])

\* next(generator)
GenNext(g) ==
    IF g.kind = "perm"
    THEN LET r == PermNext(g.perm) IN
         [res |-> IF r.ok THEN "item" ELSE "stop", item |-> r.item,
          gen |-> [g EXCEPT !.perm = r.st]]
    ELSE IF g.kind = "prod"
    THEN LET r == ProductNext(g.prod) IN
         [res |-> IF r.ok THEN "item" ELSE "stop", item |-> r.item,
          gen |-> [g EXCEPT !.prod = r.st]]
    ELSE ChainNext(g)

\* list(generator): every item the generator still yields, in order.
RECURSIVE Drain(_)
Drain(g) ==
    LET r == GenNext(g) IN
    IF r.res = "item" THEN << r.item >> \o Drain(r.gen) ELSE <<>>

(***************************************************************************)
(* WordlistGenerator                                                       *)
(***************************************************************************)
RECURSIVE Pow(_, _)
Pow(b, e) == IF e = 0 THEN 1 ELSE b * Pow(b, e - 1)

RECURSIVE SumPow(_, _, _)
\* sum of b^i for i in lo..hi, lo >= 0
SumPow(b, lo, hi) == IF lo > hi THEN 0 ELSE Pow(b, lo) + SumPow(b, lo + 1, hi)

RECURSIVE PatternCount(_)
PatternCount(pattern) ==
    IF pattern = <<>> THEN 1
    ELSE Len(CHARSET_MAP(Head(pattern))) * PatternCount(Tail(pattern))

\* _estimate_combinations.  The result is the number num/den: den is 1 unless
\* a length is negative, where charset_len ** i is the float 1/charset_len^-i.
\* ok = FALSE stands for the ZeroDivisionError of 0 ** i with i < 0.
_estimate_combinations(a) ==
    IF a.permutations # <<>>
    THEN [ok |-> TRUE, num |-> Len(Drain(PermGenerator(a))), den |-> 1]
    ELSE IF a.pattern # <<>>
    THEN [ok |-> TRUE, num |-> PatternCount(a.pattern), den |-> 1]
    ELSE LET c  == Len(a.charset)
             lo == Val(a.min_len)
             hi == Val(a.max_len)
             k  == IF lo < 0 THEN 0 - lo ELSE 0
         IN  IF c = 0 /\ lo < 0 THEN [ok |-> FALSE, num |-> 0, den |-> 1]
             ELSE [ok |-> TRUE, num |-> SumPow(c, lo + k, hi + k), den |-> Pow(c, k)]

\* Mutant: the comparison of the lengths is left out.
validate_args_lenient(a) ==
    IF IsNone(a.min_len) \/ IsNone(a.max_len) THEN "TypeError"
    ELSE "ok"

\* validate_args: "ok", "exit" (sys.exit(1)) or "TypeError" (None > None,
\* int > None)
validate_args(a) ==
    IF IsNone(a.min_len) \/ IsNone(a.max_len) THEN "TypeError"
    ELSE IF Val(a.min_len) > Val(a.max_len) THEN "exit"
    ELSE "ok"

\* Mutant: the session file is read whether or not --resume was given.
_get_start_point_always(a, sf) ==
    IF sf.exists
    THEN IF sf.readable /\ ParseInt(Strip(sf.text)).ok
         THEN ParseInt(Strip(sf.text)).val
         ELSE 0
    ELSE 0

\* _get_start_point: the session file is read only with --resume and when it
\* exists; ValueError and IOError fall through to 0.
_get_start_point(a, sf) ==
    IF a.resume /\ sf.exists
    THEN IF sf.readable /\ ParseInt(Strip(sf.text)).ok
         THEN ParseInt(Strip(sf.text)).val
         ELSE 0
    ELSE 0

\* effective_limit of run_generation, as the number num/den
effective_limit(a, tot) ==
    IF ~IsNone(a.limit) /\ Val(a.limit) # 0 /\ Val(a.limit) * tot.den < tot.num
    THEN [num |-> Val(a.limit), den |-> 1]
    ELSE [num |-> tot.num, den |-> tot.den]

\* The strategy chosen by run_generation and _generate_combinations.
MakeGenerator(a) ==
    IF a.permutations # <<>> THEN PermGenerator(a)
    ELSE IF a.pattern # <<>> THEN PatternGenerator(a)
    ELSE RangeGenerator(a)

\* Mutant: islice discards one item more than start_count.
SkipDone_late(sk, sc) == sk >= sc + 1

\* islice(generator, start_count) has discarded start_count items.
SkipDone(sk, sc) == sk >= sc

\* Mutant: append mode also for a start offset of 0.
file_mode_zero(sc) == IF sc >= 0 THEN "a" ELSE "w"

\* file_mode
file_mode(sc) == IF sc > 0 THEN "a" ELSE "w"

\* f"{prefix}{word}{suffix}" (one line of the output, without its "\n")
RenderLine(a, t) == a.prefix \o Join(t) \o a.suffix

Min(x, y) == IF x < y THEN x ELSE y
Max(x, y) == IF x < y THEN y ELSE x

\* The bytes of the lines b, each with its "\n".
RECURSIVE Bytes(_)
Bytes(b) == IF b = <<>> THEN 0 ELSE Len(Head(b)) + 1 + Bytes(Tail(b))

\* The size of the file f in bytes.
Size(f) == Bytes(f.lines) + Len(f.tail)

\* Data for the output file: whole lines, each with its "\n", then the
\* start of a line that has no "\n" yet.
Whole(ls) == [lines |-> ls, tail |-> ""]

\* The first n bytes of the lines ls.
RECURSIVE Cut(_, _)
Cut(ls, n) ==
    IF ls = <<>> \/ n = 0 THEN Whole(<<>>)
    ELSE IF n > Len(Head(ls))
    THEN LET r == Cut(Tail(ls), n - Len(Head(ls)) - 1)
         IN  [lines |-> << Head(ls) >> \o r.lines, tail |-> r.tail]
    ELSE [lines |-> <<>>, tail |-> SubSeq(Head(ls), 1, n)]

\* The lines ls without their first n bytes: the first line of the result is
\* the rest of the line the cut falls in.
RECURSIVE Drop(_, _)
Drop(ls, n) ==
    IF ls = <<>> \/ n = 0 THEN ls
    ELSE IF n > Len(Head(ls))
    THEN Drop(Tail(ls), n - Len(Head(ls)) - 1)
    ELSE << SubSeq(Head(ls), n + 1, Len(Head(ls))) >> \o Tail(ls)

\* The file f after the data c is written at its end: the first line of c
\* continues the line the file ends with.
AppendTo(f, c) ==
    IF c.lines = <<>>
    THEN [f EXCEPT !.tail = f.tail \o c.tail]
    ELSE [f EXCEPT !.lines = f.lines \o << f.tail \o Head(c.lines) >>
                                    \o Tail(c.lines),
                   !.tail = c.tail]

\* write(2) of the data d at the end of the file f under the file size limit
\* lim (None: no limit): the number of bytes the file takes.  A write the
\* limit leaves no room for fails (EFBIG); one it leaves some room for is
\* cut short.
Taken(lim, f, d) ==
    IF IsNone(lim) THEN Bytes(d) ELSE Min(Bytes(d), Max(0, Val(lim) - Size(f)))

\* f as open(..., buffering=8192) builds it: a text layer that collects the
\* encoded lines (pending) in front of a BufferedWriter (raw).  pending
\* holds whole lines; raw holds lines too, the first of which is the rest of
\* a line when the file took only a part of it.
NoBuf == [raw |-> <<>>, pending |-> <<>>]

\* The lines written to f that are not in the file yet, oldest first.
Unflushed(b) == b.raw \o b.pending

\* A call into f. file: the output file; raw, pending: the buffers of f;
\* checks: the calls of PyErr_CheckSignals the BufferedWriter has made (one
\* after every write the file took bytes of); res: how the call ends, "ok",
\* "io" (OSError) or "kb" (KeyboardInterrupt raised by a signal check).
IOState(f, b) ==
    [file |-> f, raw |-> b.raw, pending |-> b.pending, checks |-> 0,
     res |-> "ok"]

\* One write(2) of the buffer of the BufferedWriter: the file takes a part
\* of it, the buffer keeps the rest, and a signal check follows.
FlushStep(lim, s) ==
    [s EXCEPT !.file = AppendTo(s.file, Cut(s.raw, Taken(lim, s.file, s.raw))),
              !.raw = Drop(s.raw, Taken(lim, s.file, s.raw)),
              !.checks = s.checks + 1]

\* _bufferedwriter_flush_unlocked: the buffer goes to the file, write by
\* write.  sig: the signal check that finds a SIGINT pending (0: none does).
\* After an error the buffer keeps what the file has not taken.  (In a call
\* that has failed before, nothing is done.)
RECURSIVE FlushUnlocked(_, _, _)
FlushUnlocked(lim, s, sig) ==
    IF s.res # "ok" \/ s.raw = <<>> THEN s
    ELSE IF Taken(lim, s.file, s.raw) = 0 THEN [s EXCEPT !.res = "io"]
    ELSE IF s.checks + 1 = sig THEN [FlushStep(lim, s) EXCEPT !.res = "kb"]
    ELSE FlushUnlocked(lim, FlushStep(lim, s), sig)

\* One write(2) of the data d, which is larger than the buffer: the file
\* takes a part of it, and a signal check follows.
WriteStep(lim, s, d) ==
    [s EXCEPT !.file = AppendTo(s.file, Cut(d, Taken(lim, s.file, d))),
              !.checks = s.checks + 1]

\* BufferedWriter.write(d) once the buffer is empty: what is larger than the
\* buffer goes to the file, and what is left of d after a write fits the
\* buffer is kept there.  After an error the rest of d is lost.  (In a call
\* that has failed before, nothing is done.)
RECURSIVE WriteThrough(_, _, _, _)
WriteThrough(lim, s, d, sig) ==
    IF s.res # "ok" THEN s
    ELSE IF Bytes(d) <= BufferSize THEN [s EXCEPT !.raw = d]
    ELSE IF Taken(lim, s.file, d) = 0 THEN [s EXCEPT !.res = "io"]
    ELSE IF s.checks + 1 = sig THEN [WriteStep(lim, s, d) EXCEPT !.res = "kb"]
    ELSE WriteThrough(lim, WriteStep(lim, s, d),
                      Drop(d, Taken(lim, s.file, d)), sig)

\* BufferedWriter.write(d): d is kept when it fits in the free part of the
\* buffer; otherwise the buffer goes to the file first, and then d is
\* written.
BufferedWrite(lim, s, d, sig) ==
    IF Bytes(d) <= BufferSize - Bytes(s.raw)
    THEN [s EXCEPT !.raw = s.raw \o d]
    ELSE WriteThrough(lim, FlushUnlocked(lim, s, sig), d, sig)

\* _textiowrapper_writeflush: the pending lines are handed to the
\* BufferedWriter; the text layer forgets them before the call.
WriteFlush(lim, s, sig) ==
    IF s.res # "ok" \/ s.pending = <<>> THEN s
    ELSE BufferedWrite(lim, [s EXCEPT !.pending = <<>>], s.pending, sig)

\* The line joins the pending lines of the text layer, unless the call has
\* failed.
Pend(s, line) ==
    IF s.res # "ok" THEN s ELSE [s EXCEPT !.pending = Append(s.pending, line)]

\* f.write(line + "\n"), first part: the pending lines are handed on first
\* when the new line would take them over the chunk size.  After an error
\* there the new line is lost.
AddPending(lim, s, line, sig) ==
    IF s.pending # <<>> /\ Bytes(s.pending) + Len(line) + 1 > ChunkSize
    THEN Pend(WriteFlush(lim, s, sig), line)
    ELSE Pend(s, line)

\* f.write(line + "\n"), second part: the pending lines are handed on when
\* they have reached the chunk size.
FlushIfFull(lim, s, sig) ==
    IF s.res = "ok" /\ Bytes(s.pending) >= ChunkSize
    THEN WriteFlush(lim, s, sig)
    ELSE s

\* f.write(line + "\n")
TextWrite(lim, s, line, sig) ==
    FlushIfFull(lim, AddPending(lim, s, line, sig), sig)

\* The end of f.close(): the exception of the later step replaces the one
\* of the earlier step, and what the buffers still hold is lost.
Closed(first, second) ==
    [second EXCEPT !.res = IF second.res # "ok" THEN second.res ELSE first.res,
                   !.raw = <<>>, !.pending = <<>>]

\* BufferedWriter.close() after the flush of the text layer has ended as
\* first: it flushes once more, whether or not that flush had failed.
BufferedClose(lim, first, sig) ==
    Closed(first, FlushUnlocked(lim, [first EXCEPT !.res = "ok"], sig))

\* f.close(), called by f.__exit__: the text layer flushes (its pending
\* lines, then the BufferedWriter), and whether or not that fails the
\* BufferedWriter is closed.
CloseText(lim, s, sig) ==
    BufferedClose(lim, FlushUnlocked(lim, WriteFlush(lim, s, sig), sig), sig)

\* count >= limit
AtLimit(c, lim) == c * lim.den >= lim.num

\* open(self.session_file, 'w') succeeds: the file can be written, or
\* created when there is none.
CanSave(sf) == sf.writable

\* open(self.session_file, 'w'): the file is created, or emptied.
OpenSession(sf) == [sf EXCEPT !.exists = TRUE, !.text = <<>>]

\* f.write(str(c)) of _save_progress and the close of the session file at
\* the end of its with block, under the file size limit lim: the text is
\* buffered, and the close writes it.  When the limit cuts the write short
\* the next one fails, and its OSError replaces a KeyboardInterrupt.
\* sig = 1: the signal check after the first write finds a SIGINT pending.
\* file: the session file; res: how the with block ends, "ok", "io"
\* (OSError) or "kb" (KeyboardInterrupt).
_save_progress(lim, sf, c, sig) ==
    LET text == IntToStr(c)
        n == IF IsNone(lim) THEN Len(text) ELSE Min(Len(text), Val(lim))
    IN  [file |-> [sf EXCEPT !.exists = TRUE, !.text = SubSeq(text, 1, n)],
         res |-> IF n = 0 THEN "io"
                 ELSE IF n < Len(text) THEN "io"
                 ELSE IF sig = 1 THEN "kb"
                 ELSE "ok"]

\* No session file (and nothing in the way of creating one).
NoSession ==
    [exists |-> FALSE, text |-> <<>>, readable |-> TRUE, writable |-> TRUE,
     removable |-> TRUE]

\* os.remove(self.session_file) succeeds.
CanRemove(sf) == sf.removable

\* Mutant: the cleanup leaves the session file in place.
RemoveSession_keep(sf) == sf

\* if os.path.exists(self.session_file): os.remove(self.session_file)
RemoveSession(sf) == IF sf.exists THEN NoSession ELSE sf

\* The count the KeyboardInterrupt handler saves: pbar.n
PausedCount(cnt, n) == n

\* Mutant: a checkpoint every second interval.
CheckpointDue_double(c) == c % (2 * CheckpointInterval) = 0

\* count % 10000 == 0
CheckpointDue(c) == c % CheckpointInterval = 0

(***************************************************************************)
(* State.                                                                  *)
(***************************************************************************)
VARIABLES
    args,           \* argparse.Namespace of the current invocation
    sessionFile,    \* <output>.session: [exists, text, readable, writable, removable]
    outFile,        \* the output file on disk: [exists, lines, tail]
    runsLeft,       \* invocations the user may still start
    pc,             \* where the current invocation is
    total,          \* self.total_combinations
    start_count,    \* start_count of run_generation / _write_to_file
    limit,          \* effective_limit
    generator,      \* the generator handed to _write_to_file
    skipped,        \* items islice has discarded
    count,          \* count of _write_to_file
    pbar_n,         \* pbar.n
    word_tuple,     \* the loop variable
    buf,            \* lines written to f and not yet in the file: [raw, pending]
    outcome,        \* how the last invocation ended
    exit_code,      \* its exit code
    written,        \* history: the lines this invocation passed to f.write
    ckpts,          \* history: periodic checkpoints of this invocation
    cancel,         \* history: where the last KeyboardInterrupt arrived ("none")
    fail,           \* history: the state when an I/O error was raised
    prev,           \* history: outcome and pbar.n of the previous invocation, chain
    foreign,        \* history: a session file existed before the first run
    replaced,       \* history: the session file as the last open(..., 'w') found it
    kept,           \* history: the lines in the output file when f was opened
    fsize,          \* the file size limit of the process (None: no limit)
    exc             \* the exception the with block is being left with ("none")

vars == << args, sessionFile, outFile, runsLeft, pc, total, start_count, limit,
           generator, skipped, count, pbar_n, word_tuple, buf, outcome,
           exit_code, written, ckpts, cancel, fail, prev, foreign, replaced,
           kept, fsize, exc >>

NoOutput == [exists |-> FALSE, lines |-> <<>>, tail |-> ""]

NoFail ==
    [at |-> "none", session |-> NoSession, out |-> NoOutput, written |-> 0,
     kb |-> FALSE]

(***************************************************************************)
(* Inputs: the command lines and the files found by the first invocation.  *)
(***************************************************************************)
\* A limit larger than every small space of the inputs.
HugeLimit == 50
\* A resume offset and a limit on either side of the first checkpoint.
LongOffset == 9998
LongLimit == 10002

Bin == << "0", "1" >>

\* The defaults of argparse.
DefaultArgs ==
    [min_len |-> None, max_len |-> None, charset |-> Lower, pattern |-> <<>>,
     permutations |-> <<>>, prefix |-> "", suffix |-> "", limit |-> None,
     resume |-> FALSE]

Limits == { None, Some(HugeLimit) } \cup { Some(l) : l \in 0..MaxLimit }
Affixes == { << "", "" >>, << "p", "s" >> }
Lens == { Some(l) : l \in (0 - 1)..2 }

\* min_len and max_len are positional: max_len is only given after min_len,
\* and charset only after both.
Positional(lo, hi) == IsNone(lo) => IsNone(hi)

\* python3 BruteWordsCrank.py MIN MAX CHARSET [-l L] [-p P] [-s S]
RangeArgs ==
    { [DefaultArgs EXCEPT !.min_len = Some(1), !.max_len = Some(2), !.charset = Bin,
                          !.limit = l, !.prefix = x[1], !.suffix = x[2]] :
        l \in Limits, x \in Affixes }
    \cup
    { [DefaultArgs EXCEPT !.min_len = lo, !.max_len = hi, !.charset = cs] :
        lo \in Lens, hi \in Lens, cs \in { Bin, << "a", "a" >>, <<>> } }
    \cup
    { [DefaultArgs EXCEPT !.min_len = lo] : lo \in { None, Some(1) } }

\* python3 BruteWordsCrank.py MIN MAX [CHARSET] -t PATTERN [-l L]
PatternArgs ==
    { [DefaultArgs EXCEPT !.min_len = Some(1), !.max_len = Some(1), !.charset = cs,
                          !.pattern = pt, !.limit = l] :
        cs \in { Lower, Bin },
        pt \in { << "x", "%" >>, << "x", "y" >> },
        l \in { None, Some(MaxLimit) } }
    \cup
    { [DefaultArgs EXCEPT !.min_len = Some(1), !.max_len = Some(1),
                          !.pattern = << "@", "^" >>, !.limit = Some(MaxLimit)] }
    \cup
    { [DefaultArgs EXCEPT !.min_len = Some(2), !.max_len = Some(1),
                          !.pattern = << "x", "y" >>] }

\* python3 BruteWordsCrank.py [MIN [MAX]] -x STRING [-l L]
PermutationArgs ==
    { a \in { [DefaultArgs EXCEPT !.min_len = lo, !.max_len = hi,
                                   !.permutations = pm, !.limit = l] :
                 lo \in { None, Some(1), Some(2) }, hi \in { None, Some(1) },
                 pm \in { << "a", "b" >>, << "a", "a", "b" >> },
                 l \in { None, Some(MaxLimit) } } :
        Positional(a.min_len, a.max_len) }

\* Long jobs resumed just before their first checkpoint: one ends by
\* exhausting its space at the checkpoint, one by its limit after it.
LongArgs ==
    { [DefaultArgs EXCEPT !.min_len = Some(1), !.max_len = Some(1),
                          !.pattern = << "%", "%", "%", "%" >>, !.resume = TRUE],
      [DefaultArgs EXCEPT !.min_len = Some(1), !.max_len = Some(1),
                          !.pattern = << "@", "%", "%", "%", "%" >>,
                          !.limit = Some(LongLimit), !.resume = TRUE] }

\* s repeated n times
RECURSIVE StrRepeat(_, _)
StrRepeat(str, n) ==
    IF n = 0 THEN ""
    ELSE IF n % 2 = 0 THEN LET h == StrRepeat(str, n \div 2) IN h \o h
    ELSE str \o StrRepeat(str, n - 1)

\* python3 BruteWordsCrank.py 1 1 abc -p xxx...x
WideArgs ==
    { [DefaultArgs EXCEPT !.min_len = Some(1), !.max_len = Some(1),
                          !.charset = SubSeq(Lower, 1, WideCount),
                          !.prefix = StrRepeat("x", WideLen)] }

\* python3 BruteWordsCrank.py 1 1 a -p xxx...x
HugeArgs ==
    { [DefaultArgs EXCEPT !.min_len = Some(1), !.max_len = Some(1),
                          !.charset = << "a" >>,
                          !.prefix = StrRepeat("x", HugeLen)] }

\* python3 BruteWordsCrank.py 1 2 01
BinArgs ==
    [DefaultArgs EXCEPT !.min_len = Some(1), !.max_len = Some(2), !.charset = Bin]

SessionWith(text) ==
    [exists |-> TRUE, text |-> text, readable |-> TRUE, writable |-> TRUE,
     removable |-> TRUE]

\* Session files left by the user or by an earlier job on the same target.
SessionTexts ==
    { << "0" >>, << "2" >>, << " ", "3", "\n" >>, << "-", "1" >>, << "+", "1" >>,
      << "1", "_", "0" >>, << "2", "0" >>, <<>>, << "x" >>, << "2", " ", "1" >>,
      << "\f", "3", " " >>, << "", "2" >> }

\* A session path the program cannot read (mode 0200), cannot write (mode
\* 0400), cannot remove (in a directory of mode 0555), or that is a
\* directory.
ProtectedSessions ==
    { [SessionWith(<< "2" >>) EXCEPT !.readable = FALSE],
      [SessionWith(<< "2" >>) EXCEPT !.writable = FALSE],
      [SessionWith(<< "-", "1" >>) EXCEPT !.writable = FALSE],
      [SessionWith(<< "2" >>) EXCEPT !.removable = FALSE],
      [SessionWith(<<>>) EXCEPT !.readable = FALSE, !.writable = FALSE,
                                !.removable = FALSE] }

ForeignSessions ==
    { SessionWith(t) : t \in SessionTexts } \cup ProtectedSessions

StaleOutput == [exists |-> TRUE, lines |-> << "old1", "old2", "old3" >>, tail |-> ""]

\* An output file whose last line an earlier run could not finish.
CutOutput == [exists |-> TRUE, lines |-> << "old1", "old2" >>, tail |-> "ol"]

\* The output file right after a create/truncate open.
Truncated == [exists |-> TRUE, lines |-> <<>>, tail |-> ""]

\* File size limits of the process (ulimit -f, here in bytes; None: no
\* limit) around the sizes of one, two and three lines of WideArgs.
WideLimits ==
    { None, Some(0), Some(WideLen - 95), Some(WideLen + 2), Some(WideLen + 905),
      Some(2 * (WideLen + 2)), Some(3 * (WideLen + 2) - 1) }

\* File size limits around the size of the one line of HugeArgs.
HugeLimits == { None, Some(0), Some(100), Some(HugeLen + 1), Some(HugeLen + 2) }

\* File size limits below and above the 16 bytes of the output of BinArgs.
BinLimits == { Some(0), Some(1), Some(3), Some(17) }

\* The job that is followed over the longest chains of invocations: the
\* example python3 BruteWordsCrank.py 1 2 01 [-l L].
ChainArgs ==
    { a \in RangeArgs : /\ a.min_len = Some(1) /\ a.max_len = Some(2)
                        /\ a.charset = Bin /\ a.prefix = "" }

\* [args, session, out, runs, fsize]
Scenarios ==
    { [args |-> [a EXCEPT !.resume = r], session |-> NoSession, out |-> o,
       runs |-> IF a \in ChainArgs THEN MaxRuns - 1 ELSE MaxRuns - 2,
       fsize |-> None] :
        a \in RangeArgs \cup PatternArgs \cup PermutationArgs,
        r \in BOOLEAN, o \in { NoOutput, StaleOutput } }
    \cup
    { [args |-> [a EXCEPT !.resume = r], session |-> sf, out |-> StaleOutput,
       runs |-> 1, fsize |-> None] :
        a \in { x \in RangeArgs : x.min_len \in { Some(1), Some(2) }
                                  /\ x.max_len \in { Some(1), Some(2) }
                                  /\ x.prefix = "" },
        r \in BOOLEAN, sf \in ForeignSessions }
    \cup
    { [args |-> a, session |-> SessionWith(IntToStr(LongOffset)), out |-> NoOutput,
       runs |-> 0, fsize |-> None] : a \in LongArgs }
    \cup
    { [args |-> a, session |-> SessionWith(IntToStr(LongOffset)), out |-> NoOutput,
       runs |-> 0, fsize |-> Some(Len(IntToStr(LongOffset)))] :
        a \in { x \in LongArgs : IsNone(x.limit) } }
    \cup
    { [args |-> a, session |-> NoSession, out |-> NoOutput,
       runs |-> IF IsNone(l) THEN 1 ELSE 0, fsize |-> l] :
        a \in WideArgs, l \in WideLimits }
    \cup
    { [args |-> [a EXCEPT !.resume = r], session |-> sf, out |-> NoOutput,
       runs |-> 0, fsize |-> l] :
        a \in HugeArgs, r \in BOOLEAN,
        sf \in { NoSession, SessionWith(<< "0" >>) }, l \in HugeLimits }
    \cup
    { [args |-> [BinArgs EXCEPT !.resume = r], session |-> sf, out |-> o,
       runs |-> 0, fsize |-> l] :
        r \in BOOLEAN, sf \in { NoSession, SessionWith(<< "2" >>) },
        o \in { NoOutput, StaleOutput }, l \in BinLimits }
    \cup
    { [args |-> [BinArgs EXCEPT !.resume = TRUE],
       session |-> SessionWith(<< "2", "0" >>), out |-> StaleOutput, runs |-> 0,
       fsize |-> l] : l \in { Some(0), Some(1), Some(2) } }
    \cup
    { [args |-> [BinArgs EXCEPT !.resume = TRUE], session |-> SessionWith(<< "2" >>),
       out |-> CutOutput, runs |-> 0, fsize |-> None] }

\* chain: every invocation so far but the first was started with --resume
\* after an invocation that ended Paused.
NoPrev == [outcome |-> "none", n |-> 0, chain |-> TRUE]

Init ==
    \E sc \in Scenarios :
        /\ args = sc.args
        /\ sessionFile = sc.session
        /\ outFile = sc.out
        /\ runsLeft = sc.runs
        /\ foreign = sc.session.exists
        /\ pc = "main"
        /\ total = [ok |-> TRUE, num |-> 0, den |-> 1]
        /\ start_count = 0
        /\ limit = [num |-> 0, den |-> 1]
        /\ generator = NoGenerator
        /\ skipped = 0
        /\ count = 0
        /\ pbar_n = 0
        /\ word_tuple = <<>>
        /\ buf = NoBuf
        /\ outcome = "none"
        /\ exit_code = 0
        /\ written = <<>>
        /\ ckpts = 0
        /\ cancel = "none"
        /\ fail = NoFail
        /\ prev = NoPrev
        /\ replaced = NoSession
        /\ kept = 0
        /\ fsize = sc.fsize
        /\ exc = "none"

(***************************************************************************)
(* Steps of one invocation.                                                *)
(***************************************************************************)
\* The process ends: sys.exit, a return from main, a traceback, or the
\* SIGINT of a KeyboardInterrupt nothing catches.
Exit(o, code) ==
    /\ pc' = "exited"
    /\ outcome' = o
    /\ exit_code' = code

\* The record of an I/O error raised inside the try statement: where, and
\* the session file, the output file and the number of f.write calls then.
FailAt(at, sf, f, n) ==
    [at |-> at, session |-> sf, out |-> f, written |-> n, kb |-> FALSE]

\* The record of the I/O error once a KeyboardInterrupt has arrived.
Interrupted(fl) == [fl EXCEPT !.kb = (fl.at # "none")]

\* The positions inside the with block where the interpreter can raise a
\* KeyboardInterrupt between two instructions; at "close" it is inside
\* pbar.__exit__.
WithBody == { "skip", "loop", "write", "inc", "update", "save", "save_write",
              "close" }

\* The positions where no handler of the program is around a
\* KeyboardInterrupt: outside the try statement, inside its handlers and in
\* its finally clause.
Unprotected == { "main", "run", "enter", "except_kb", "kb_write", "kb_exit",
                 "except_io", "traceback", "cleanup", "return" }

\* Where the exception e that leaves the with block is handled: the
\* handlers of the try statement, or the cleanup of run_generation when
\* there is none.
Handler(e) ==
    CASE e = "kb" -> "except_kb"
      [] e = "io" -> "except_io"
      [] e = "crash" -> "traceback"
      [] OTHER -> "cleanup"

\* main() up to the construction of WordlistGenerator.
Main ==
    /\ pc = "main"
    /\ IF args.permutations = <<>> /\ (IsNone(args.min_len) \/ IsNone(args.max_len))
       THEN Exit("Usage", 2) /\ UNCHANGED total
       ELSE IF validate_args(args) = "TypeError"
       THEN Exit("Crashed", 1) /\ UNCHANGED total
       ELSE IF validate_args(args) = "exit"
       THEN Exit("Invalid", 1) /\ UNCHANGED total
       ELSE IF ~_estimate_combinations(args).ok
       THEN Exit("Crashed", 1) /\ UNCHANGED total
       ELSE /\ total' = _estimate_combinations(args)
            /\ pc' = "run"
            /\ UNCHANGED << outcome, exit_code >>
    /\ UNCHANGED << args, sessionFile, outFile, runsLeft, start_count, limit,
                    generator, skipped, count, pbar_n, word_tuple, buf,
                    written, ckpts, cancel, fail, prev, foreign, replaced,
                    kept, fsize, exc >>

\* run_generation up to the call of _write_to_file.
RunGeneration ==
    /\ pc = "run"
    /\ start_count' = _get_start_point(args, sessionFile)
    /\ limit' = effective_limit(args, total)
    /\ generator' = MakeGenerator(args)
    /\ pc' = "enter"
    /\ UNCHANGED << args, sessionFile, outFile, runsLeft, total, skipped,
                    count, pbar_n, word_tuple, buf, outcome, exit_code,
                    written, ckpts, cancel, fail, prev, foreign, replaced,
                    kept, fsize, exc >>

\* _write_to_file up to its try statement: file_mode = ...; try:
EnterWrite ==
    /\ pc = "enter"
    /\ pc' = "open"
    /\ UNCHANGED << args, sessionFile, outFile, runsLeft, total, start_count,
                    limit, generator, skipped, count, pbar_n, word_tuple, buf,
                    outcome, exit_code, written, ckpts, cancel, fail, prev,
                    foreign, replaced, kept, fsize, exc >>

\* open(self.args.output, file_mode, buffering=8192)
OpenOutput ==
    /\ pc = "open"
    /\ outFile' = IF file_mode(start_count) = "w"
                  THEN Truncated
                  ELSE [outFile EXCEPT !.exists = TRUE]
    /\ kept' = Len(outFile'.lines)
    /\ buf' = NoBuf
    /\ pc' = "tqdm"
    /\ UNCHANGED << args, sessionFile, runsLeft, total, start_count, limit,
                    generator, skipped, count, pbar_n, word_tuple, outcome,
                    exit_code, written, ckpts, cancel, fail, prev, foreign,
                    replaced, fsize, exc >>

\* open() raises IOError: nothing is created or truncated.
OpenFail ==
    /\ pc = "open"
    /\ fail' = FailAt(pc, sessionFile, outFile, Len(written))
    /\ pc' = "except_io"
    /\ UNCHANGED << args, sessionFile, outFile, runsLeft, total, start_count,
                    limit, generator, skipped, count, pbar_n, word_tuple, buf,
                    outcome, exit_code, written, ckpts, cancel, prev, foreign,
                    replaced, kept, fsize, exc >>

\* tqdm(total=limit, initial=start_count), and count = start_count when there
\* is nothing to skip.
MakePbar ==
    /\ pc = "tqdm"
    /\ pbar_n' = start_count
    /\ skipped' = 0
    /\ count' = start_count
    /\ pc' = IF start_count > 0 THEN "skip" ELSE "loop"
    /\ UNCHANGED << args, sessionFile, outFile, runsLeft, total, start_count,
                    limit, generator, word_tuple, buf, outcome, exit_code,
                    written, ckpts, cancel, fail, prev, foreign, replaced,
                    kept, fsize, exc >>

\* An exception no handler of the try statement catches (ValueError from
\* product) is raised in the with block.
Crash ==
    /\ exc' = "crash"
    /\ pc' = "close"

\* for _ in itertools.islice(generator, start_count): pass -- one item
SkipStep ==
    /\ pc = "skip"
    /\ LET r == GenNext(generator) IN
       /\ generator' = r.gen
       /\ IF r.res = "raise"
          THEN Crash /\ UNCHANGED skipped
          ELSE /\ skipped' = IF r.res = "item" THEN skipped + 1 ELSE skipped
               /\ pc' = IF r.res = "item" /\ ~SkipDone(skipped + 1, start_count)
                        THEN "skip" ELSE "loop"
               /\ UNCHANGED exc
    /\ UNCHANGED << args, sessionFile, outFile, runsLeft, total, start_count,
                    limit, count, pbar_n, word_tuple, buf, outcome, exit_code,
                    written, ckpts, cancel, fail, prev, foreign, replaced,
                    kept, fsize >>

\* for word_tuple in generator: if count >= limit: break -- the item is bound
\* to word_tuple before the test
LoopNext ==
    /\ pc = "loop"
    /\ LET r == GenNext(generator) IN
       /\ generator' = r.gen
       /\ IF r.res = "raise"
          THEN Crash /\ UNCHANGED word_tuple
          ELSE /\ word_tuple' = IF r.res = "item" THEN r.item ELSE word_tuple
               /\ pc' = IF r.res = "stop" \/ AtLimit(count, limit)
                        THEN "close" ELSE "write"
               /\ UNCHANGED exc
    /\ UNCHANGED << args, sessionFile, outFile, runsLeft, total, start_count,
                    limit, skipped, count, pbar_n, buf, outcome, exit_code,
                    written, ckpts, cancel, fail, prev, foreign, replaced,
                    kept, fsize >>

\* f.write(f"{prefix}{word}{suffix}\n") returns: the line goes to the buffers
\* of f, and older lines go to the file when the buffers are full.  A line
\* larger than the buffer goes to the file itself; when the file takes only
\* a part of it and the rest fits the buffer, the call still returns.
Write ==
    /\ pc = "write"
    /\ \E r \in { TextWrite(fsize, IOState(outFile, buf),
                             RenderLine(args, word_tuple), 0) } :
          /\ r.res = "ok"
          /\ outFile' = r.file
          /\ buf' = [raw |-> r.raw, pending |-> r.pending]
    /\ written' = Append(written, RenderLine(args, word_tuple))
    /\ pc' = "inc"
    /\ UNCHANGED << args, sessionFile, runsLeft, total, start_count, limit,
                    generator, skipped, count, pbar_n, word_tuple, outcome,
                    exit_code, ckpts, cancel, fail, prev, foreign, replaced,
                    kept, fsize, exc >>

\* f.write raises IOError: the file takes no byte of a write the call makes.
\* The with block is left.
WriteFail ==
    /\ pc = "write"
    /\ \E r \in { TextWrite(fsize, IOState(outFile, buf),
                             RenderLine(args, word_tuple), 0) } :
          /\ r.res = "io"
          /\ outFile' = r.file
          /\ buf' = [raw |-> r.raw, pending |-> r.pending]
          /\ fail' = FailAt(pc, sessionFile, r.file, Len(written) + 1)
    /\ written' = Append(written, RenderLine(args, word_tuple))
    /\ exc' = "io"
    /\ pc' = "close"
    /\ UNCHANGED << args, sessionFile, runsLeft, total, start_count, limit,
                    generator, skipped, count, pbar_n, word_tuple, outcome,
                    exit_code, ckpts, cancel, prev, foreign, replaced, kept,
                    fsize >>

\* f.write raises KeyboardInterrupt: a SIGINT is pending at one of the signal
\* checks the BufferedWriter makes after its writes to the file.  What the
\* call had not yet put in the buffer is lost.
InterruptWrite ==
    /\ pc = "write"
    /\ \E sig \in 1..TextWrite(fsize, IOState(outFile, buf),
                               RenderLine(args, word_tuple), 0).checks :
          \E r \in { TextWrite(fsize, IOState(outFile, buf),
                                RenderLine(args, word_tuple), sig) } :
             /\ r.res = "kb"
             /\ outFile' = r.file
             /\ buf' = [raw |-> r.raw, pending |-> r.pending]
    /\ written' = Append(written, RenderLine(args, word_tuple))
    /\ cancel' = "f.write"
    /\ exc' = "kb"
    /\ pc' = "close_f"
    /\ UNCHANGED << args, sessionFile, runsLeft, total, start_count, limit,
                    generator, skipped, count, pbar_n, word_tuple, outcome,
                    exit_code, ckpts, fail, prev, foreign, replaced, kept,
                    fsize >>

\* count += 1
Inc ==
    /\ pc = "inc"
    /\ count' = count + 1
    /\ pc' = "update"
    /\ UNCHANGED << args, sessionFile, outFile, runsLeft, total, start_count,
                    limit, generator, skipped, pbar_n, word_tuple, buf,
                    outcome, exit_code, written, ckpts, cancel, fail, prev,
                    foreign, replaced, kept, fsize, exc >>

\* pbar.update(1), then the test of the periodic checkpoint
Update ==
    /\ pc = "update"
    /\ pbar_n' = pbar_n + 1
    /\ pc' = IF CheckpointDue(count) THEN "save" ELSE "loop"
    /\ UNCHANGED << args, sessionFile, outFile, runsLeft, total, start_count,
                    limit, generator, skipped, count, word_tuple, buf,
                    outcome, exit_code, written, ckpts, cancel, fail, prev,
                    foreign, replaced, kept, fsize, exc >>

\* self._save_progress(count) of the loop, its open(self.session_file, 'w'):
\* the session file is created or emptied.  When it cannot be opened for
\* writing, the OSError leaves the with block.
SaveProgress ==
    /\ pc = "save"
    /\ IF CanSave(sessionFile)
       THEN /\ sessionFile' = OpenSession(sessionFile)
            /\ replaced' = sessionFile
            /\ pc' = "save_write"
            /\ UNCHANGED << fail, exc >>
       ELSE /\ fail' = FailAt(pc, sessionFile, outFile, Len(written))
            /\ exc' = "io"
            /\ pc' = "close"
            /\ UNCHANGED << sessionFile, replaced >>
    /\ UNCHANGED << args, outFile, runsLeft, total, start_count, limit,
                    generator, skipped, count, pbar_n, word_tuple, buf,
                    outcome, exit_code, written, ckpts, cancel, prev, foreign,
                    kept, fsize >>

\* self._save_progress(count) of the loop, its f.write(str(count)) and the
\* close of the session file.  An OSError of the close leaves the with block
\* of the output file.
SaveWrite ==
    /\ pc = "save_write"
    /\ \E r \in { _save_progress(fsize, sessionFile, count, 0) } :
          /\ sessionFile' = r.file
          /\ IF r.res = "ok"
             THEN /\ ckpts' = ckpts + 1
                  /\ pc' = "loop"
                  /\ UNCHANGED << fail, exc >>
             ELSE /\ fail' = FailAt(pc, r.file, outFile, Len(written))
                  /\ exc' = "io"
                  /\ pc' = "close"
                  /\ UNCHANGED ckpts
    /\ UNCHANGED << args, outFile, runsLeft, total, start_count, limit,
                    generator, skipped, count, pbar_n, word_tuple, buf,
                    outcome, exit_code, written, cancel, prev, foreign,
                    replaced, kept, fsize >>

\* The close of the session file in the _save_progress of the loop raises
\* KeyboardInterrupt: a SIGINT is pending at the signal check after the write
\* of the count.
InterruptSaveWrite ==
    /\ pc = "save_write"
    /\ \E r \in { _save_progress(fsize, sessionFile, count, 1) } :
          /\ r.res = "kb"
          /\ sessionFile' = r.file
    /\ ckpts' = ckpts + 1
    /\ cancel' = "save.close"
    /\ exc' = "kb"
    /\ pc' = "close_f"
    /\ UNCHANGED << args, outFile, runsLeft, total, start_count, limit,
                    generator, skipped, count, pbar_n, word_tuple, buf,
                    outcome, exit_code, written, fail, prev, foreign,
                    replaced, kept, fsize >>

\* The with block is left, after the loop or with an exception:
\* pbar.__exit__ returns.
ExitPbar ==
    /\ pc = "close"
    /\ pc' = "close_f"
    /\ UNCHANGED << args, sessionFile, outFile, runsLeft, total, start_count,
                    limit, generator, skipped, count, pbar_n, word_tuple, buf,
                    outcome, exit_code, written, ckpts, cancel, fail, prev,
                    foreign, replaced, kept, fsize, exc >>

\* f.__exit__ closes f without an error: the exception that left the with
\* block, if any, goes on to its handler.
Close ==
    /\ pc = "close_f"
    /\ \E r \in { CloseText(fsize, IOState(outFile, buf), 0) } :
          /\ r.res = "ok"
          /\ outFile' = r.file
    /\ buf' = NoBuf
    /\ pc' = Handler(exc)
    /\ exc' = "none"
    /\ UNCHANGED << args, sessionFile, runsLeft, total, start_count, limit,
                    generator, skipped, count, pbar_n, word_tuple, outcome,
                    exit_code, written, ckpts, cancel, fail, prev, foreign,
                    replaced, kept, fsize >>

\* f.__exit__ raises IOError: the file takes no byte of a write the close
\* makes.  The IOError replaces the exception that left the with block.
FlushFail ==
    /\ pc = "close_f"
    /\ \E r \in { CloseText(fsize, IOState(outFile, buf), 0) } :
          /\ r.res = "io"
          /\ outFile' = r.file
          /\ fail' = IF fail.at = "none"
                     THEN FailAt(pc, sessionFile, r.file, Len(written))
                     ELSE fail
    /\ buf' = NoBuf
    /\ pc' = Handler("io")
    /\ exc' = "none"
    /\ UNCHANGED << args, sessionFile, runsLeft, total, start_count, limit,
                    generator, skipped, count, pbar_n, word_tuple, outcome,
                    exit_code, written, ckpts, cancel, prev, foreign,
                    replaced, kept, fsize >>

\* A SIGINT is pending while f.__exit__ closes f: at one of the signal
\* checks of the BufferedWriter (the close goes on, and an IOError of its
\* second flush replaces the KeyboardInterrupt), or, when the with block had
\* ended without an exception, right after the call has returned.
InterruptClose ==
    /\ pc = "close_f"
    /\ \E quiet \in { CloseText(fsize, IOState(outFile, buf), 0) } :
       \E sig \in 1..(quiet.checks + 1) :
       \E r \in { CloseText(fsize, IOState(outFile, buf), sig) } :
          /\ sig = quiet.checks + 1 => (quiet.res = "ok" /\ exc = "none")
          /\ outFile' = r.file
          /\ fail' = IF r.res = "io" /\ fail.at = "none"
                     THEN FailAt(pc, sessionFile, r.file, Len(written))
                     ELSE Interrupted(fail)
          /\ pc' = Handler(IF r.res = "io" THEN "io" ELSE "kb")
    /\ cancel' = "f.close"
    /\ buf' = NoBuf
    /\ exc' = "none"
    /\ UNCHANGED << args, sessionFile, runsLeft, total, start_count, limit,
                    generator, skipped, count, pbar_n, word_tuple, outcome,
                    exit_code, written, ckpts, prev, foreign, replaced, kept,
                    fsize >>

\* Mutant: the IOError handler saves the progress before it exits.
ExceptIOError_saves ==
    /\ pc = "except_io"
    /\ sessionFile' = _save_progress(fsize, sessionFile, pbar_n, 0).file
    /\ Exit("Failed", 1)
    /\ UNCHANGED << args, outFile, runsLeft, total, start_count, limit,
                    generator, skipped, count, pbar_n, word_tuple, buf,
                    written, ckpts, cancel, fail, prev, foreign, replaced,
                    kept, fsize, exc >>

\* except IOError: sys.exit(1)
ExceptIOError ==
    /\ pc = "except_io"
    /\ Exit("Failed", 1)
    /\ UNCHANGED << args, sessionFile, outFile, runsLeft, total, start_count,
                    limit, generator, skipped, count, pbar_n, word_tuple, buf,
                    written, ckpts, cancel, fail, prev, foreign, replaced,
                    kept, fsize, exc >>

\* Cleanup of run_generation.  Nothing catches the OSError of an os.remove
\* that fails.
Cleanup ==
    /\ pc = "cleanup"
    /\ IF sessionFile.exists /\ ~CanRemove(sessionFile)
       THEN Exit("Crashed", 1) /\ UNCHANGED sessionFile
       ELSE /\ sessionFile' = RemoveSession(sessionFile)
            /\ pc' = "return"
            /\ UNCHANGED << outcome, exit_code >>
    /\ UNCHANGED << args, outFile, runsLeft, total, start_count, limit,
                    generator, skipped, count, pbar_n, word_tuple, buf,
                    written, ckpts, cancel, fail, prev, foreign, replaced,
                    kept, fsize, exc >>

\* run_generation and main return.
Return ==
    /\ pc = "return"
    /\ Exit("Completed", 0)
    /\ UNCHANGED << args, sessionFile, outFile, runsLeft, total, start_count,
                    limit, generator, skipped, count, pbar_n, word_tuple, buf,
                    written, ckpts, cancel, fail, prev, foreign, replaced,
                    kept, fsize, exc >>

\* KeyboardInterrupt between two instructions inside the with block (in
\* pbar.__exit__ it replaces the exception that left the block): pbar and
\* then f are left with it; the session file is closed first when
\* _save_progress had it open.
Interrupt ==
    /\ pc \in WithBody
    /\ cancel' = pc
    /\ fail' = Interrupted(fail)
    /\ exc' = "kb"
    /\ pc' = "close_f"
    /\ UNCHANGED << args, sessionFile, outFile, runsLeft, total, start_count,
                    limit, generator, skipped, count, pbar_n, word_tuple, buf,
                    outcome, exit_code, written, ckpts, prev, foreign,
                    replaced, kept, fsize >>

\* except KeyboardInterrupt: self._save_progress(pbar.n), its
\* open(self.session_file, 'w').  Nothing catches the OSError of an open that
\* fails in the handler.
ExceptKeyboardInterrupt ==
    /\ pc = "except_kb"
    /\ IF CanSave(sessionFile)
       THEN /\ sessionFile' = OpenSession(sessionFile)
            /\ replaced' = sessionFile
            /\ pc' = "kb_write"
            /\ UNCHANGED << outcome, exit_code >>
       ELSE Exit("Crashed", 1) /\ UNCHANGED << sessionFile, replaced >>
    /\ UNCHANGED << args, outFile, runsLeft, total, start_count, limit,
                    generator, skipped, count, pbar_n, word_tuple, buf,
                    written, ckpts, cancel, fail, prev, foreign, kept, fsize,
                    exc >>

\* self._save_progress(pbar.n) of the handler, its f.write(str(count)) and
\* the close of the session file.  Nothing catches the OSError of a close
\* that fails in the handler.
PausedWrite ==
    /\ pc = "kb_write"
    /\ \E r \in { _save_progress(fsize, sessionFile,
                                  PausedCount(count, pbar_n), 0) } :
          /\ sessionFile' = r.file
          /\ pc' = IF r.res = "ok" THEN "kb_exit" ELSE "traceback"
    /\ UNCHANGED << args, outFile, runsLeft, total, start_count, limit,
                    generator, skipped, count, pbar_n, word_tuple, buf,
                    outcome, exit_code, written, ckpts, cancel, fail, prev,
                    foreign, replaced, kept, fsize, exc >>

\* The close of the session file in the handler raises KeyboardInterrupt: a
\* SIGINT is pending at the signal check after the write of the count, and
\* nothing catches it.
InterruptPausedWrite ==
    /\ pc = "kb_write"
    /\ \E r \in { _save_progress(fsize, sessionFile,
                                  PausedCount(count, pbar_n), 1) } :
          /\ r.res = "kb"
          /\ sessionFile' = r.file
    /\ cancel' = "save.close"
    /\ fail' = Interrupted(fail)
    /\ Exit("Killed", 0 - 2)
    /\ UNCHANGED << args, outFile, runsLeft, total, start_count, limit,
                    generator, skipped, count, pbar_n, word_tuple, buf,
                    written, ckpts, prev, foreign, replaced, kept, fsize,
                    exc >>

\* The handler reports the pause: sys.exit(0)
PausedExit ==
    /\ pc = "kb_exit"
    /\ Exit("Paused", 0)
    /\ UNCHANGED << args, sessionFile, outFile, runsLeft, total, start_count,
                    limit, generator, skipped, count, pbar_n, word_tuple, buf,
                    written, ckpts, cancel, fail, prev, foreign, replaced,
                    kept, fsize, exc >>

\* KeyboardInterrupt while the with statement is still opening f or building
\* the progress bar: the handler reads pbar.n with pbar unbound, and nothing
\* catches its UnboundLocalError.
InterruptEarly ==
    /\ pc \in { "open", "tqdm" }
    /\ cancel' = pc
    /\ pc' = "traceback"
    /\ UNCHANGED << args, sessionFile, outFile, runsLeft, total, start_count,
                    limit, generator, skipped, count, pbar_n, word_tuple, buf,
                    outcome, exit_code, written, ckpts, fail, prev, foreign,
                    replaced, kept, fsize, exc >>

\* The exception leaves main: the traceback, exit code 1.
Traceback ==
    /\ pc = "traceback"
    /\ Exit("Crashed", 1)
    /\ UNCHANGED << args, sessionFile, outFile, runsLeft, total, start_count,
                    limit, generator, skipped, count, pbar_n, word_tuple, buf,
                    written, ckpts, cancel, fail, prev, foreign, replaced,
                    kept, fsize, exc >>

\* KeyboardInterrupt where nothing catches it (a second one in a handler
\* included): the files stay as they are, the interpreter prints the
\* traceback and ends the process by SIGINT, return code -2.
Kill ==
    /\ pc \in Unprotected
    /\ cancel' = pc
    /\ fail' = Interrupted(fail)
    /\ Exit("Killed", 0 - 2)
    /\ UNCHANGED << args, sessionFile, outFile, runsLeft, total, start_count,
                    limit, generator, skipped, count, pbar_n, word_tuple, buf,
                    written, ckpts, prev, foreign, replaced, kept, fsize,
                    exc >>

\* The user starts the program again on the same target, with the same
\* arguments, with or without --resume.
StartRun ==
    /\ pc = "exited"
    /\ runsLeft > 0
    /\ runsLeft' = runsLeft - 1
    /\ \E r \in BOOLEAN :
          /\ args' = [args EXCEPT !.resume = r]
          /\ prev' = [outcome |-> outcome, n |-> pbar_n,
                      chain |-> prev.chain /\ outcome = "Paused" /\ r]
    /\ pc' = "main"
    /\ total' = [ok |-> TRUE, num |-> 0, den |-> 1]
    /\ start_count' = 0
    /\ limit' = [num |-> 0, den |-> 1]
    /\ generator' = NoGenerator
    /\ skipped' = 0
    /\ count' = 0
    /\ pbar_n' = 0
    /\ word_tuple' = <<>>
    /\ buf' = NoBuf
    /\ written' = <<>>
    /\ ckpts' = 0
    /\ cancel' = "none"
    /\ fail' = NoFail
    /\ replaced' = NoSession
    /\ kept' = 0
    /\ exc' = "none"
    /\ UNCHANGED << sessionFile, outFile, outcome, exit_code, foreign, fsize >>

Next ==
    \/ Main
    \/ RunGeneration
    \/ EnterWrite
    \/ OpenOutput
    \/ OpenFail
    \/ MakePbar
    \/ SkipStep
    \/ LoopNext
    \/ Write
    \/ WriteFail
    \/ InterruptWrite
    \/ Inc
    \/ Update
    \/ SaveProgress
    \/ SaveWrite
    \/ InterruptSaveWrite
    \/ ExitPbar
    \/ Close
    \/ FlushFail
    \/ InterruptClose
    \/ ExceptIOError
    \/ Cleanup
    \/ Return
    \/ Interrupt
    \/ ExceptKeyboardInterrupt
    \/ PausedWrite
    \/ InterruptPausedWrite
    \/ PausedExit
    \/ InterruptEarly
    \/ Traceback
    \/ Kill
    \/ StartRun

Spec == Init /\ [][Next]_vars

(***************************************************************************)
(* The reference output: what one uninterrupted run from the start writes. *)
(***************************************************************************)
Render(a, items) == [i \in 1..Len(items) |-> RenderLine(a, items[i])]

\* The first n items of a generator (fewer when it ends before).
RECURSIVE TakeItems(_, _)
TakeItems(g, n) ==
    IF n <= 0 THEN <<>>
    ELSE LET r == GenNext(g) IN
         IF r.res = "item" THEN << r.item >> \o TakeItems(r.gen, n - 1) ELSE <<>>

\* The first n lines of the enumeration from the start, rendered.
FirstLines(a, n) == Render(a, TakeItems(MakeGenerator(a), n))

\* The first n lines of one uninterrupted run from the start.
FullRunPrefix(a, n) ==
    FirstLines(a, Min(n, effective_limit(a, _estimate_combinations(a)).num))

Prefix(q, n) == SubSeq(q, 1, Min(n, Len(q)))

Ended == pc = "exited"
Undisturbed == cancel = "none" /\ fail.at = "none"

(***************************************************************************)
(* Properties.                                                             *)
(***************************************************************************)

\* C1: when a run was paused with count C persisted and the program is run
\* again with --resume and the same arguments, the output file left by that
\* run has at least C lines and its first C lines are the first C lines of an
\* uninterrupted run.  (Stated for targets that held no session file before
\* the first run, so every resume offset is one the program itself saved.)
C1_ResumeKeepsPrefix ==
    (Ended /\ outcome \in { "Completed", "Paused" } /\ ~foreign /\ args.resume
        /\ prev.outcome = "Paused")
        => /\ Len(outFile.lines) >= prev.n
           /\ Prefix(outFile.lines, prev.n) = FullRunPrefix(args, prev.n)

\* C2: a run that ends Paused exits with code 0, keeps the session file, and
\* the count in the session file is the number of lines in the output file.
C2_PausedCountIsLineCount ==
    (Ended /\ ~foreign /\ outcome = "Paused")
        => /\ exit_code = 0
           /\ sessionFile.exists
           /\ sessionFile.text = IntToStr(Len(outFile.lines))

\* C3: after a run that ends Completed there is no session file, whether the
\* space was exhausted or the limit reached, and whether the file was there
\* before the run or written by a checkpoint.
C3_CompletedClearsSession ==
    (Ended /\ outcome = "Completed") => ~sessionFile.exists

\* A run resumed from a session file found on the target wrote a periodic
\* checkpoint, stopped at the user's limit and ended Completed.
C3_Witness ==
    /\ Ended /\ outcome = "Completed"
    /\ foreign /\ prev.outcome = "none" /\ args.resume
    /\ ckpts > 0
    /\ ~IsNone(args.limit) /\ limit.num < total.num /\ AtLimit(count, limit)

\* C4: a run without --resume that ends Completed leaves exactly
\* min(L, totalSize) lines when a limit L >= 0 is given, totalSize lines
\* otherwise.
C4_FreshRunLineCount ==
    (Ended /\ outcome = "Completed" /\ ~args.resume)
        => Len(outFile.lines) =
              IF IsNone(args.limit) THEN total.num
              ELSE Min(Val(args.limit), total.num)

\* C5: once opening the output or writing the lines has failed with an I/O
\* error (in open, in f.write, or at the close of f, where the error of a
\* line that f.write took and the file did not is raised), no line is passed
\* to f.write any more; and unless a KeyboardInterrupt arrives after the
\* failure, the run leaves the with block, goes to the IOError handler and
\* ends Failed with exit code 1, the session file stays as it was at the
\* failure, and the output file stays as the failure left it.
C5_IOErrorIsFatal ==
    (fail.at # "none")
        => /\ Len(written) = fail.written
           /\ pc \notin { "skip", "loop", "write", "inc", "update", "save",
                          "save_write", "cleanup", "return" }
           /\ ~fail.kb
                 => /\ pc \in { "close", "close_f", "except_io", "exited" }
                    /\ pc = "exited" => (outcome = "Failed" /\ exit_code = 1)
                    /\ sessionFile = fail.session
                    /\ fail.at \in { "open", "write", "close_f" }
                          => outFile = fail.out

\* On a target with a session file, under a file size limit, f.write took
\* a line larger than the buffer of which the file took only a part, and
\* returned; count and pbar.n went to 1, the close of f raised the IOError
\* and the run ended Failed with the line cut on disk.
C5_Witness ==
    /\ Ended /\ outcome = "Failed" /\ exit_code = 1
    /\ cancel = "none"
    /\ fail.at = "close_f"
    /\ fail.session.exists
    /\ Len(written) = 1 /\ Len(written[1]) + 1 > BufferSize
    /\ count = 1 /\ pbar_n = 1
    /\ outFile.lines = <<>> /\ outFile.tail # ""

\* The text is the canonical decimal form of an integer.
Canonical(t) ==
    LET d == IF t # <<>> /\ Head(t) = "-" THEN Tail(t) ELSE t
    IN  /\ d # <<>>
        /\ \A i \in 1..Len(d) : IsDigit(d[i])
        /\ Len(d) > 1 => d[1] # "0"
        /\ t # << "-", "0" >>

\* The text is empty or holds a character no integer literal has.
NotAnInteger(t) ==
    \/ t = <<>>
    \/ \E i \in 1..Len(t) : ~IsDigit(t[i]) /\ t[i] \notin { "-", "+", "_" }

C6_StartOffset ==
    pc = "enter" =>
        LET t == Strip(sessionFile.text) IN
        /\ ~args.resume => start_count = 0
        /\ (args.resume /\ ~sessionFile.exists) => start_count = 0
        /\ (args.resume /\ sessionFile.exists /\ ~sessionFile.readable)
              => start_count = 0
        /\ (args.resume /\ sessionFile.exists /\ sessionFile.readable
                /\ NotAnInteger(t)) => start_count = 0
        /\ (args.resume /\ sessionFile.exists /\ sessionFile.readable
                /\ Canonical(t)) => IntToStr(start_count) = t

\* C6: resolving the start offset never ends the run (unless a
\* KeyboardInterrupt kills the process, run_generation always goes on to
\* _write_to_file), and the offset is the integer in the session
\* file with --resume, 0 when the file is missing, unreadable, empty or not a
\* number, and 0 without --resume.
C6_StartOffsetNeverFails ==
    /\ []C6_StartOffset
    /\ [][pc = "run" => (pc' = "enter" \/ (pc' = "exited" /\ outcome' = "Killed"))]_vars

\* --resume found a session file whose text, once stripped, is an integer.
C6_Witness ==
    /\ pc = "enter" /\ args.resume
    /\ sessionFile.exists /\ sessionFile.readable
    /\ sessionFile.text # Strip(sessionFile.text)
    /\ start_count > 0

\* The size of the space as the specification gives it.
RECURSIVE Factorial(_)
Factorial(n) == IF n = 0 THEN 1 ELSE n * Factorial(n - 1)

SpecifiedSize(a) ==
    IF a.permutations # <<>> THEN Factorial(Len(a.permutations))
    ELSE IF a.pattern # <<>> THEN PatternCount(a.pattern)
    ELSE SumPow(Len(a.charset), Val(a.min_len), Val(a.max_len))

\* C7: for arguments the validation accepts, a run from the start with no
\* limit, no interruption and no I/O error (a session file left on the
\* target can be removed) ends Completed having written exactly totalSize
\* lines, totalSize as specified for the mode.
C7_EmitsTotalSize ==
    (Ended /\ outcome \notin { "Usage", "Invalid" } /\ validate_args(args) = "ok"
        /\ ~args.resume /\ IsNone(args.limit) /\ Undisturbed
        /\ (sessionFile.exists => CanRemove(sessionFile)))
        => /\ outcome = "Completed"
           /\ Len(outFile.lines) = SpecifiedSize(args)
           /\ total = [ok |-> TRUE, num |-> SpecifiedSize(args), den |-> 1]

\* The word a mixed-radix counter over charset cs shows at value i with L
\* positions, the rightmost position counting fastest.
CounterWord(cs, L, i) ==
    [k \in 1..L |-> cs[((i \div Pow(Len(cs), L - k)) % Len(cs)) + 1]]

\* The j-th word (from 1) of the range order: lengths ascending from L, and
\* within one length the counter values ascending.
RECURSIVE RangeWordAt(_, _, _)
RangeWordAt(cs, L, j) ==
    IF j <= Pow(Len(cs), L) THEN CounterWord(cs, L, j - 1)
    ELSE RangeWordAt(cs, L + 1, j - Pow(Len(cs), L))

\* C8: in range mode the lines a run writes are, in order, the words of the
\* range order from the run's start offset on.
C8_RangeOrder ==
    (args.permutations = <<>> /\ args.pattern = <<>>
        /\ pc \notin { "main", "run" } /\ outcome \notin { "Usage", "Invalid" })
        => \A j \in 1..Len(written) :
              written[j] = RenderLine(args,
                  RangeWordAt(args.charset, Val(args.min_len),
                              Max(start_count, 0) + j))

\* The example of the specification: charset "01", lengths 1 to 2.
C8_Witness ==
    /\ Ended /\ outcome = "Completed"
    /\ args.charset = Bin /\ args.pattern = <<>> /\ args.permutations = <<>>
    /\ args.min_len = Some(1) /\ args.max_len = Some(2)
    /\ outFile.lines = << "0", "1", "00", "01", "10", "11" >>

\* C9: a run that skips the first n items, 0 <= n <= totalSize, writes the
\* items that follow the first n of the enumeration from the start; with
\* n = totalSize it writes nothing.
C9_SkipAhead ==
    (pc \in { "loop", "write", "inc", "update", "save", "save_write", "close",
               "close_f", "cleanup", "return" }
        /\ total.den = 1 /\ total.num <= EnumBound
        /\ 0 <= start_count /\ start_count <= total.num)
        => /\ written = SubSeq(FirstLines(args, start_count + Len(written)),
                               start_count + 1, start_count + Len(written))
           /\ start_count + Len(written) <= total.num
           /\ start_count = total.num => written = <<>>

\* A run skipped some items and wrote the rest of the space.
C9_Witness ==
    /\ pc = "cleanup"
    /\ start_count > 1
    /\ Len(written) > 1
    /\ start_count + Len(written) = total.num

\* C10: with --permutations and no lengths, an undisturbed run ends Completed
\* with exit code 0.
C10_PermutationsAlone ==
    (Ended /\ args.permutations # <<>> /\ IsNone(args.min_len)
        /\ IsNone(args.max_len) /\ Undisturbed)
        => (outcome = "Completed" /\ exit_code = 0)

\* The arguments with the ones the precedence ignores set to fixed values:
\* lengths and charset in pattern mode, and the pattern too with
\* --permutations.
Precedence(a) ==
    IF a.permutations # <<>>
    THEN [a EXCEPT !.min_len = Some(1), !.max_len = Some(1), !.charset = Lower,
                   !.pattern = <<>>]
    ELSE IF a.pattern # <<>>
    THEN [a EXCEPT !.min_len = Some(1), !.max_len = Some(1), !.charset = Lower]
    ELSE a

\* C11: with --permutations, and with a pattern and no --permutations, a
\* fresh undisturbed run given both lengths ends Completed and leaves the
\* output that the same mode leaves whatever lengths, charset (and pattern)
\* come with it.
C11_PrecedenceIgnoresConflicts ==
    (Ended /\ Undisturbed /\ ~args.resume
        /\ (args.permutations # <<>> \/ args.pattern # <<>>)
        /\ ~IsNone(args.min_len) /\ ~IsNone(args.max_len))
        => /\ outcome = "Completed"
           /\ exit_code = 0
           /\ outFile.lines =
                 FullRunPrefix(Precedence(args),
                               SpecifiedSize(Precedence(args)))

\* Both lengths are given and the first exceeds the second.
MinAboveMax(a) ==
    ~IsNone(a.min_len) /\ ~IsNone(a.max_len) /\ Val(a.min_len) > Val(a.max_len)

C12_NoGeneration ==
    MinAboveMax(args) =>
        /\ pc \in { "main", "exited" }
        /\ written = <<>> /\ buf = NoBuf
        /\ (pc = "exited" /\ outcome # "Killed")
              => (outcome = "Invalid" /\ exit_code = 1)

\* C12: with min_len > max_len the run ends in its first step, with exit
\* code 1 unless a KeyboardInterrupt kills the process before: it never
\* reaches the generation, and that step leaves the output file and the
\* session file exactly as they were.
C12_RejectsMinAboveMax ==
    /\ []C12_NoGeneration
    /\ [][(pc = "main" /\ MinAboveMax(args))
            => /\ pc' = "exited"
               /\ (exit_code' = 1 \/ outcome' = "Killed")
               /\ outFile' = outFile
               /\ sessionFile' = sessionFile]_vars

\* Lengths 2 and 1 on a target that holds an output and a session file.
C12_Witness ==
    /\ Ended /\ outcome = "Invalid" /\ exit_code = 1
    /\ MinAboveMax(args)
    /\ outFile = StaleOutput
    /\ sessionFile.exists

\* No line occurs twice.
NoRepeat(q) == \A i \in 1..Len(q) : \A j \in 1..Len(q) : q[i] = q[j] => i = j

\* C13: in range mode and in pattern mode a fresh undisturbed run that ends
\* Completed has written no word twice.
C13_NoWordTwice ==
    (Ended /\ outcome = "Completed" /\ Undisturbed /\ ~args.resume
        /\ args.permutations = <<>>)
        => NoRepeat(outFile.lines)

\* The session file holds a count this run has stored.
StoredByRun == ckpts > 0 \/ (Ended /\ outcome = "Paused")

\* The count in the session file.
StoredCount == ParseInt(Strip(sessionFile.text)).val

\* The lines of the enumeration that are in the output file: the start_count
\* lines the run took over, and the lines the file has taken since f was
\* opened.
FlushedLines == Max(start_count, 0) + Len(outFile.lines) - kept

\* C14: whenever the session file holds a count stored by the current run,
\* that count is at most the number of lines flushed to the output file.
C14_StoredCountIsFlushed ==
    (StoredByRun /\ fail.at = "none") => StoredCount <= FlushedLines

\* C15: on a target that held no session file, when every run after the
\* first was started with --resume after a run that ended Paused (wherever
\* the cancellation arrived), the output file left by a run that ends
\* Completed is the output of one uninterrupted run.
C15_ResumedEqualsUninterrupted ==
    (Ended /\ outcome = "Completed" /\ fail.at = "none" /\ ~foreign
        /\ prev.chain)
        => outFile.lines = FullRunPrefix(args, total.num)

\* C16: whatever integer the session file holds, the start offset a resumed
\* run uses is not negative and the run writes at most effective_limit lines.
C16_OffsetAndLimit ==
    (args.resume /\ pc \in { "enter", "open", "tqdm", "skip", "loop", "write",
                              "inc", "update", "save", "save_write", "close",
                              "close_f", "cleanup", "return" })
        => /\ start_count >= 0
           /\ Len(written) * limit.den <= limit.num

\* C17: on a target that held no session file before the first run, every
\* _save_progress that rewrites an existing session file stores a count that
\* is at least the count the file held when it was opened, in runs with and
\* without --resume.
C17_SessionNeverDecreases ==
    [][(~foreign /\ pc \in { "save_write", "kb_write" }
            /\ sessionFile' # sessionFile /\ replaced.exists)
        => ParseInt(Strip(sessionFile'.text)).val
              >= ParseInt(Strip(replaced.text)).val]_vars

C18_TruncatedWithoutOffset ==
    pc = "tqdm" =>
        LET t == Strip(sessionFile.text) IN
        /\ (\/ ~args.resume
            \/ ~sessionFile.exists
            \/ ~sessionFile.readable
            \/ NotAnInteger(t)
            \/ t = << "0" >>
            \/ start_count <= 0) => outFile = Truncated

\* C18: the open keeps the content of the output file exactly when
\* start_count > 0; otherwise (no --resume, no session file, an unreadable or
\* malformed one, a stored 0) it leaves the file empty.
C18_OpenMode ==
    /\ []C18_TruncatedWithoutOffset
    /\ [][(pc = "open" /\ pc' = "tqdm")
            => outFile' = IF start_count > 0
                          THEN [outFile EXCEPT !.exists = TRUE]
                          ELSE Truncated]_vars

\* A resumed run with a positive offset has opened an output file that held
\* lines, and they are still there.
C18_Witness ==
    /\ pc = "tqdm" /\ start_count > 0
    /\ outFile = StaleOutput

\* The last multiple of the interval that is not above c.
LastMultiple(c) == (c \div CheckpointInterval) * CheckpointInterval

\* The larger of the start offset and the count last stored by this run.
LastPersisted == IF ckpts > 0 THEN Max(start_count, StoredCount) ELSE start_count

\* C19: at every iteration boundary of the write loop, when the count has
\* reached a multiple of the interval since the start offset, the session
\* file holds the last such multiple, stored by this run, and otherwise this
\* run has stored nothing; so the count is less than one interval above the
\* larger of the start offset and the count last stored.
C19_CheckpointEveryInterval ==
    pc = "loop" =>
        /\ IF LastMultiple(count) > start_count
           THEN /\ ckpts >= 1
                /\ sessionFile.exists
                /\ sessionFile.text = IntToStr(LastMultiple(count))
           ELSE ckpts = 0
        /\ count - LastPersisted < CheckpointInterval

\* A run resumed just below the first multiple of the interval has stored
\* it and gone on past it.
C19_Witness ==
    /\ pc = "loop"
    /\ ckpts = 1
    /\ start_count > 0 /\ start_count < CheckpointInterval
    /\ count = CheckpointInterval + 1
    /\ sessionFile.text = IntToStr(CheckpointInterval)

====
